---- MODULE Spec2Model ----
(***************************************************************************)
(* Model of the creative automation pipeline (src/main.py, src/config.py). *)
(* One CreativeAutomationPipeline is run up to MaxRuns times over the same *)
(* campaign brief against one filesystem (input_assets/ and output/).      *)
(***************************************************************************)
EXTENDS Integers, Sequences, FiniteSets, TLC

\* ---- bounds ----
MaxRuns == 2
MaxProducts == 2
MaxFiles == 1

\* ---- configuration (src/config.py) ----
AI_PRIORITY == <<"huggingface">>
HUGGINGFACE_MODELS == <<"FLUX.1-schnell", "OpenDalleV1.1", "dalle-3">>
RatioOrder == <<"1_1", "9_16", "16_9">>
ASPECT_RATIOS == [r \in {"1_1", "9_16", "16_9"} |->
                    CASE r = "1_1" -> <<1024, 1024>>
                      [] r = "9_16" -> <<720, 1280>>
                      [] r = "16_9" -> <<1280, 720>>]
INPUT_ASSETS_DIR == "input_assets"
OUTPUT_DIR == "output"

possible_extensions == <<".jpg", ".jpeg", ".png", ".webp">>

\* ---- the inputs ----
ProductIds == 1..MaxProducts
Product(i) == [id |-> i, name |-> <<"name", i>>]
None == "None"
\* Python's None where a path, an image or the results dict is expected
NoPath == <<>>
NoImage == [none |-> TRUE]
NoResults == [none |-> TRUE]

\* What an image file holds, as far as the pipeline can tell: the ratios for
\* which Image.open + resize of that file succeeds.
GoodImage == {"1_1", "9_16", "16_9"}
PartialImage == {"9_16"}
CorruptImage == {}
Contents == {GoodImage, PartialImage, CorruptImage}

\* What the body of a 200 response can be: an image, or bytes that do not decode.
GeneratedContents == {GoodImage, CorruptImage}

\* Responses of the inference endpoint to one POST.
Responses == {"200", "503", "exception"}
\* Outcomes of makedirs + open + write of the response bytes.
PersistOutcomes == {"ok", "nofile", "partial"}

AssetPath(id, ext) == <<INPUT_ASSETS_DIR, id, ext>>
AllAssetPaths == {AssetPath(i, possible_extensions[k]) :
                    i \in ProductIds, k \in 1..Len(possible_extensions)}

\* Product ids are opaque keys, so the products of a brief are numbered in
\* brief order; ids are unique within a brief.
Briefs == {[k \in 1..n |-> k] : n \in 1..MaxProducts}

VARIABLES
    hasKey,      \* Config.HUGGINGFACE_API_KEY is set
    briefValid,  \* the brief file exists and parses
    drawable,    \* drawing campaign_message with the available font works
    brief,       \* campaign_brief['products'] as a sequence of product ids
    fs,          \* input_assets/: path -> content, for the files that exist
    outputFs,    \* output/: path -> image, for the files that exist
    pc,          \* position of generate_creatives
    run,         \* number of runs started
    results,     \* the results dict, None before it is initialised
    idx,         \* index of the product being processed
    asset_path,  \* local asset_path
    method,      \* local method
    svcIdx,      \* position in AI_PRIORITY
    modelIdx,    \* position in HUGGINGFACE_MODELS
    ratioIdx,    \* position in ASPECT_RATIOS
    genLog,      \* generation events of the product being resolved
    lookups,     \* product ids looked up in this run
    resolution,  \* per looked-up product of this run: what resolution gave
    written,     \* output paths written in this run
    lastStep,    \* outcomes of the last ratio iteration
    raiseKind,   \* the exception generate_creatives raised
    startFs,     \* input_assets/ at the start of this run
    prev         \* the previous run: how it ended and, if it returned, what

vars == <<hasKey, briefValid, drawable, brief, fs, outputFs, pc, run, results, idx,
          asset_path, method, svcIdx, modelIdx, ratioIdx, genLog, lookups,
          resolution, written, lastStep, raiseKind, startFs, prev>>

config == <<hasKey, briefValid, drawable, brief>>
locals == <<asset_path, method, svcIdx, modelIdx, ratioIdx>>

\* ---- pure helpers ----
exists(path) == path \in DOMAIN fs

FirstExistingM(files, id, k) ==
    LET found == {j \in k..Len(possible_extensions) :
                     AssetPath(id, possible_extensions[j]) \in DOMAIN files}
    IN IF found = {} THEN NoPath
       ELSE AssetPath(id, possible_extensions[
                CHOOSE j \in found : \A l \in found : l <= j])

RECURSIVE FirstExisting(_, _, _)
FirstExisting(files, id, k) ==
    IF k > Len(possible_extensions) THEN NoPath
    ELSE IF AssetPath(id, possible_extensions[k]) \in DOMAIN files
         THEN AssetPath(id, possible_extensions[k])
         ELSE FirstExisting(files, id, k + 1)

get_existing_asset_pathM(files, id) ==
    IF AssetPath(id, ".jpg") \in DOMAIN files THEN AssetPath(id, ".jpg") ELSE NoPath

get_existing_asset_path(files, id) == FirstExisting(files, id, 1)

GeneratedAssetPathPng(id) == AssetPath(id, ".png")

GeneratedAssetPathTmp(id) == <<INPUT_ASSETS_DIR, id, ".jpg.tmp">>

\* line 66: where generate_with_huggingface saves the bytes
GeneratedAssetPath(id) == AssetPath(id, ".jpg")

IsSuccessM(response) == response # "exception"

IsSuccess(response) == response = "200"

OutputPathM(id, ratio) == <<OUTPUT_DIR, ratio, "creative", ratio, ".jpg">>

OutputPath(id, ratio) == <<OUTPUT_DIR, id, ratio, "creative", ratio, ".jpg">>

resize_image_for_aspect_ratioM(files, path, ratio) ==
    IF ratio \in files[path]
    THEN [size |-> <<ASPECT_RATIOS[ratio][2], ASPECT_RATIOS[ratio][1]>>,
          labeled |-> FALSE]
    ELSE NoImage

resize_image_for_aspect_ratio(files, path, ratio) ==
    IF ratio \in files[path]
    THEN [size |-> ASPECT_RATIOS[ratio], labeled |-> FALSE]
    ELSE NoImage

add_campaign_messageM(image, overlayOk) ==
    IF overlayOk THEN [image EXCEPT !.labeled = TRUE] ELSE NoImage

add_campaign_message(image, overlayOk) ==
    IF overlayOk THEN [image EXCEPT !.labeled = TRUE] ELSE image

MakeEntryM(p, m, input, output) ==
    [product |-> p.id, product_name |-> p.name, method |-> "genai_generated",
     input_asset |-> input, output |-> output]

MakeEntry(p, m, input, output) ==
    [product |-> p.id, product_name |-> p.name, method |-> m,
     input_asset |-> input, output |-> output]

TrackResultM(res, entry) ==
    [res EXCEPT !.assets_generated = @ + 1,
                !.generation_methods = <<entry>>]

\* lines 221-228: count the creative and append its entry
TrackResult(res, entry) ==
    [res EXCEPT !.assets_generated = @ + 1,
                !.generation_methods = Append(@, entry)]

load_campaign_briefM(valid) == "loaded"

load_campaign_brief(valid) == IF valid THEN "loaded" ELSE "raise"

InitialResults == [products_processed |-> 0, assets_generated |-> 0,
                   generation_methods |-> <<>>]

NoStep == [kind |-> "none"]

\* the product ids resolved in the runs so far
ResolvedSoFar(before, res) ==
    before \cup {res[k].id : k \in {j \in 1..Len(res) : res[j].status = "resolved"}}

\* ---- initial state ----
Init ==
    /\ hasKey \in BOOLEAN
    /\ briefValid \in BOOLEAN
    /\ drawable \in BOOLEAN
    /\ brief \in Briefs
    /\ \E present \in SUBSET AllAssetPaths :
          /\ Cardinality(present) <= MaxFiles
          /\ \A path \in present : \E k \in 1..Len(brief) : path[2] = brief[k]
          /\ fs \in [present -> Contents]
    /\ outputFs = <<>>
    /\ pc = "idle"
    /\ run = 0
    /\ results = NoResults
    /\ idx = 0
    /\ asset_path = NoPath
    /\ method = None
    /\ svcIdx = 0
    /\ modelIdx = 0
    /\ ratioIdx = 0
    /\ genLog = <<>>
    /\ lookups = <<>>
    /\ resolution = <<>>
    /\ written = {}
    /\ lastStep = NoStep
    /\ raiseKind = None
    /\ startFs = fs
    /\ prev = [status |-> None, resolved |-> {}]

\* ---- generate_creatives: load the brief and initialise results ----
StartRun ==
    /\ pc \in {"idle", "done", "raised"}
    /\ run < MaxRuns
    /\ run' = run + 1
    /\ prev' = IF pc = "done"
               THEN [status |-> pc, startFs |-> startFs, results |-> results,
                     written |-> written,
                     resolved |-> ResolvedSoFar(prev.resolved, resolution)]
               ELSE [status |-> IF pc = "idle" THEN None ELSE pc,
                     resolved |-> ResolvedSoFar(prev.resolved, resolution)]
    /\ startFs' = fs
    /\ lookups' = <<>>
    /\ resolution' = <<>>
    /\ written' = {}
    /\ genLog' = <<>>
    /\ lastStep' = NoStep
    /\ asset_path' = NoPath
    /\ method' = None
    /\ svcIdx' = 0
    /\ modelIdx' = 0
    /\ ratioIdx' = 0
    /\ IF load_campaign_brief(briefValid) = "loaded"
       THEN /\ results' = InitialResults
            /\ idx' = 1
            /\ pc' = "product"
            /\ raiseKind' = None
       ELSE /\ results' = NoResults
            /\ idx' = 0
            /\ pc' = "raised"
            /\ raiseKind' = "BriefLoadError"
    /\ UNCHANGED <<config, fs, outputFs>>

\* for-loop head: the next product, or return results
NextProduct(i) ==
    IF i < Len(brief)
    THEN idx' = i + 1 /\ pc' = "product"
    ELSE idx' = i /\ pc' = "done"

\* ---- lines 177-192: look the product up, start generation if missing ----
Lookup ==
    /\ pc = "product"
    /\ LET p == Product(brief[idx])
           existing == get_existing_asset_path(fs, p.id)
       IN /\ lookups' = Append(lookups, p.id)
          /\ genLog' = <<>>
          /\ lastStep' = NoStep
          /\ IF existing # NoPath
             THEN /\ asset_path' = existing
                  /\ method' = "existing_asset"
                  /\ pc' = "resolved"
                  /\ svcIdx' = 0
             ELSE /\ asset_path' = NoPath
                  /\ method' = None
                  /\ pc' = "service"
                  /\ svcIdx' = 1
          /\ modelIdx' = 0
          /\ ratioIdx' = 0
    /\ UNCHANGED <<config, fs, outputFs, run, results, idx, resolution,
                   written, raiseKind, startFs, prev>>

\* ---- generate_product_image: one iteration of the provider loop ----
Service ==
    /\ pc = "service"
    /\ svcIdx <= Len(AI_PRIORITY)
    /\ IF AI_PRIORITY[svcIdx] = "huggingface" /\ hasKey
       THEN /\ pc' = "hf"
            /\ modelIdx' = 1
            /\ svcIdx' = svcIdx
            /\ genLog' = Append(genLog, <<"service", svcIdx>>)
       ELSE /\ pc' = "service"
            /\ modelIdx' = modelIdx
            /\ svcIdx' = svcIdx + 1
            /\ genLog' = genLog \o <<<<"service", svcIdx>>, <<"sleep">>>>
    /\ UNCHANGED <<config, fs, outputFs, run, results, idx, asset_path, method,
                   ratioIdx, lookups, resolution, written, lastStep, raiseKind,
                   startFs, prev>>

\* ---- generate_with_huggingface: one model attempt ----
HfAttempt ==
    /\ pc = "hf"
    /\ modelIdx <= Len(HUGGINGFACE_MODELS)
    /\ \E response \in Responses, persist \in PersistOutcomes,
          bytes \in GeneratedContents :
         LET p == Product(brief[idx])
             path == GeneratedAssetPath(p.id)
             ok == IsSuccess(response)
             seen == IF ok THEN response ELSE "failed"
             outcome == IF ~ok THEN "request_failed"
                        ELSE IF persist = "ok" THEN "saved" ELSE "persist_failed"
         IN /\ ok \/ (persist = "ok" /\ bytes = GoodImage)
            /\ genLog' = Append(genLog, <<"model", modelIdx, seen, outcome>>)
            /\ fs' = IF ~ok \/ persist = "nofile" THEN fs
                     ELSE IF persist = "partial" THEN (path :> CorruptImage) @@ fs
                     ELSE (path :> bytes) @@ fs
            /\ IF ok /\ persist = "ok"
               THEN /\ asset_path' = path
                    /\ method' = "genai_generated"
                    /\ pc' = "resolved"
                    /\ modelIdx' = modelIdx
               ELSE /\ asset_path' = asset_path
                    /\ method' = method
                    /\ pc' = "hf"
                    /\ modelIdx' = modelIdx + 1
    /\ UNCHANGED <<config, outputFs, run, results, idx, svcIdx, ratioIdx,
                   lookups, resolution, written, lastStep, raiseKind, startFs,
                   prev>>

\* generate_with_huggingface returns None; generate_product_image pauses and
\* moves to the next provider
HfExhausted ==
    /\ pc = "hf"
    /\ modelIdx > Len(HUGGINGFACE_MODELS)
    /\ pc' = "service"
    /\ svcIdx' = svcIdx + 1
    /\ genLog' = Append(genLog, <<"sleep">>)
    /\ UNCHANGED <<config, fs, outputFs, run, results, idx, asset_path, method,
                   modelIdx, ratioIdx, lookups, resolution, written, lastStep,
                   raiseKind, startFs, prev>>

GenExhaustedM ==
    /\ pc = "service"
    /\ svcIdx > Len(AI_PRIORITY)
    /\ pc' = "resolved"
    /\ asset_path' = NoPath
    /\ method' = "genai_generated"
    /\ UNCHANGED <<config, fs, outputFs, run, results, idx, svcIdx, modelIdx,
                   ratioIdx, genLog, lookups, resolution, written, lastStep,
                   raiseKind, startFs, prev>>

\* every provider failed: generate_product_image raises, and nothing in
\* generate_creatives catches it
GenExhausted ==
    /\ pc = "service"
    /\ svcIdx > Len(AI_PRIORITY)
    /\ pc' = "raised"
    /\ raiseKind' = "ResolutionExhausted"
    /\ resolution' = Append(resolution, [id |-> brief[idx], status |-> "exhausted"])
    /\ UNCHANGED <<config, fs, outputFs, run, results, idx, locals, genLog,
                   lookups, written, lastStep, startFs, prev>>

\* ---- line 195: if asset_path and os.path.exists(asset_path) ----
CheckAsset ==
    /\ pc = "resolved"
    /\ IF asset_path # NoPath /\ exists(asset_path)
       THEN /\ pc' = "ratio"
            /\ ratioIdx' = 1
            /\ idx' = idx
            /\ resolution' = Append(resolution,
                   [id |-> brief[idx], status |-> "resolved",
                    method |-> method, path |-> asset_path])
       ELSE /\ NextProduct(idx)
            /\ ratioIdx' = ratioIdx
            /\ resolution' = Append(resolution,
                   [id |-> brief[idx], status |-> "skipped"])
    /\ genLog' = <<>>
    /\ UNCHANGED <<config, fs, outputFs, run, results, asset_path, method,
                   svcIdx, modelIdx, lookups, written, lastStep,
                   raiseKind, startFs, prev>>

\* ---- lines 197-230: one aspect ratio ----
RatioStep ==
    /\ pc = "ratio"
    /\ ratioIdx <= Len(RatioOrder)
    /\ \E writeOk \in BOOLEAN :
         LET p == Product(brief[idx])
             overlayOk == drawable
             ratio == RatioOrder[ratioIdx]
             resized_img == resize_image_for_aspect_ratio(fs, asset_path, ratio)
             final_img == add_campaign_message(resized_img, overlayOk)
             output_path == OutputPath(p.id, ratio)
         IN IF resized_img = NoImage
            THEN /\ writeOk
                 /\ lastStep' = [kind |-> "resize_failed", ratio |-> ratio]
                 /\ ratioIdx' = ratioIdx + 1
                 /\ UNCHANGED <<outputFs, results, written, pc, raiseKind>>
            ELSE IF final_img = NoImage \/ ~writeOk
            THEN /\ lastStep' = [kind |-> "write_raised", ratio |-> ratio,
                                 overlayOk |-> overlayOk, writeOk |-> writeOk]
                 /\ pc' = "raised"
                 /\ raiseKind' = "OutputWriteError"
                 /\ UNCHANGED <<outputFs, results, written, ratioIdx>>
            ELSE /\ lastStep' = [kind |-> "written", ratio |-> ratio,
                                 overlayOk |-> overlayOk, resized |-> resized_img,
                                 path |-> output_path]
                 /\ outputFs' = (output_path :> final_img) @@ outputFs
                 /\ written' = written \cup {output_path}
                 /\ results' = TrackResult(results,
                        MakeEntry(p, method, asset_path, output_path))
                 /\ ratioIdx' = ratioIdx + 1
                 /\ UNCHANGED <<pc, raiseKind>>
    /\ UNCHANGED <<config, fs, run, idx, asset_path, method, svcIdx, modelIdx,
                   genLog, lookups, resolution, startFs, prev>>

FinishProductM ==
    /\ pc = "ratio"
    /\ ratioIdx > Len(RatioOrder)
    /\ results' = [results EXCEPT !.products_processed =
                      IF lastStep.kind = "written" THEN @ + 1 ELSE @]
    /\ NextProduct(idx)
    /\ UNCHANGED <<config, fs, outputFs, run, asset_path, method, svcIdx,
                   modelIdx, ratioIdx, genLog, lookups, resolution, written,
                   lastStep, raiseKind, startFs, prev>>

\* ---- line 235, then the loop head or the return ----
FinishProduct ==
    /\ pc = "ratio"
    /\ ratioIdx > Len(RatioOrder)
    /\ results' = [results EXCEPT !.products_processed = @ + 1]
    /\ NextProduct(idx)
    /\ UNCHANGED <<config, fs, outputFs, run, asset_path, method, svcIdx,
                   modelIdx, ratioIdx, genLog, lookups, resolution, written,
                   lastStep, raiseKind, startFs, prev>>

Next ==
    \/ StartRun
    \/ Lookup
    \/ Service
    \/ HfAttempt
    \/ HfExhausted
    \/ GenExhausted
    \/ CheckAsset
    \/ RatioStep
    \/ FinishProduct

Spec == Init /\ [][Next]_vars

\* ---- get_existing_asset_path on its own, over any input_assets/ ----
InitLocate ==
    /\ hasKey = FALSE
    /\ briefValid = TRUE
    /\ drawable = TRUE
    /\ brief = [k \in 1..MaxProducts |-> k]
    /\ \E present \in SUBSET AllAssetPaths : fs = [path \in present |-> GoodImage]
    /\ outputFs = <<>>
    /\ pc = "locate"
    /\ run = 0
    /\ results = NoResults
    /\ idx = 0
    /\ asset_path = NoPath
    /\ method = None
    /\ svcIdx = 0
    /\ modelIdx = 0
    /\ ratioIdx = 0
    /\ genLog = <<>>
    /\ lookups = <<>>
    /\ resolution = <<>>
    /\ written = {}
    /\ lastStep = NoStep
    /\ raiseKind = None
    /\ startFs = fs
    /\ prev = [status |-> None, resolved |-> {}]

Locate ==
    /\ pc = "locate"
    /\ \E k \in 1..Len(brief) :
          /\ idx' = k
          /\ asset_path' = get_existing_asset_path(fs, Product(brief[k]).id)
    /\ pc' = "located"
    /\ UNCHANGED <<config, fs, outputFs, run, results, method, svcIdx, modelIdx,
                   ratioIdx, genLog, lookups, resolution, written, lastStep,
                   raiseKind, startFs, prev>>

NextLocate == Locate

SpecLocate == InitLocate /\ [][NextLocate]_vars

\* ---- derived views used by the properties ----
Ended == pc \in {"done", "raised"}
Loaded == results # NoResults
Entries == IF Loaded THEN results.generation_methods ELSE <<>>
EntriesOf(id) == SelectSeq(Entries, LAMBDA e : e.product = id)
IsModelEvent(e) == e[1] = "model"
ModelEvents == SelectSeq(genLog, IsModelEvent)
Methods(r) == [k \in 1..Len(r.generation_methods) |-> r.generation_methods[k].method]
ResolvedIdx == {k \in 1..Len(resolution) : resolution[k].status = "resolved"}
ExhaustedIdx == {k \in 1..Len(resolution) : resolution[k].status = "exhausted"}
HasAssetFile(files, id) ==
    \E k \in 1..Len(possible_extensions) :
        AssetPath(id, possible_extensions[k]) \in DOMAIN files
ResizesAll(path) ==
    \A k \in 1..Len(RatioOrder) :
        resize_image_for_aspect_ratio(fs, path, RatioOrder[k]) # NoImage

\* C1: when a product's resolution is exhausted, the run still looks up
\* every product that follows it in the brief.
C1_ExhaustionDoesNotAbort ==
    (Ended /\ ExhaustedIdx # {}) =>
        \A j \in 1..Len(brief) : \E l \in 1..Len(lookups) : lookups[l] = brief[j]

\* C2: once the brief is loaded the run never raises; a one-product brief
\* with no asset and no credential returns a report with both counts 0.
C2_OnlyBriefLoadRaises ==
    /\ pc = "raised" => raiseKind = "BriefLoadError"
    /\ (Ended /\ briefValid /\ Len(brief) = 1 /\ ~hasKey
          /\ ~HasAssetFile(startFs, brief[1])) =>
            /\ pc = "done"
            /\ results.products_processed = 0
            /\ results.assets_generated = 0

\* C3: a product with a file under any recognised extension is resolved as
\* existing_asset, and no generation step is ever taken for it.
C3_ExistingAssetNeverGenerates ==
    /\ [](method = "existing_asset" =>
            /\ pc \notin {"service", "hf"}
            /\ genLog = <<>>
            /\ asset_path \in DOMAIN fs)
    /\ [][(pc = "product" /\ HasAssetFile(fs, brief[idx])) =>
            /\ method' = "existing_asset"
            /\ pc' = "resolved"
            /\ genLog' = <<>>
            /\ fs' = fs]_vars

C3_Witness ==
    /\ pc = "resolved"
    /\ method = "existing_asset"
    /\ asset_path[3] = ".png"
    /\ hasKey

\* C4 as stated: a model is tried only after every earlier model failed by
\* a non-200 status or a transport failure.
C4_OrderedUntilHttpSuccess ==
    \A k \in 1..Len(ModelEvents) : \A j \in 1..(k - 1) :
        ModelEvents[j][4] = "request_failed"

\* C4 amended: models are tried in the configured order, each only after
\* every earlier one failed (non-200, transport failure or a failure to
\* persist the bytes); the product is resolved as genai_generated by the
\* first model whose 200 response was persisted, and none is tried after it.
C4_OrderedUntilSaved ==
    /\ \A k \in 1..Len(ModelEvents) :
          /\ ModelEvents[k][2] = k
          /\ k <= Len(HUGGINGFACE_MODELS)
          /\ \A j \in 1..(k - 1) :
                ModelEvents[j][4] \in {"request_failed", "persist_failed"}
    /\ (pc \in {"service", "hf"} /\ Len(ModelEvents) > 0) =>
          /\ modelIdx = Len(ModelEvents) + 1
          /\ ModelEvents[Len(ModelEvents)][4] \in {"request_failed", "persist_failed"}
    /\ (pc = "resolved" /\ method = "genai_generated") =>
          /\ Len(ModelEvents) >= 1
          /\ ModelEvents[Len(ModelEvents)][3] = "200"
          /\ ModelEvents[Len(ModelEvents)][4] = "saved"
          /\ asset_path = AssetPath(brief[idx], ".jpg")
          /\ asset_path \in DOMAIN fs

C4_Witness ==
    /\ pc = "resolved"
    /\ method = "genai_generated"
    /\ Len(ModelEvents) = 3
    /\ ModelEvents[1][4] = "persist_failed"
    /\ ModelEvents[2][4] = "request_failed"

\* C5: an exhausted product adds nothing to the report; with two products
\* of which the first resolves and the second exhausts, the returned report
\* holds only the first product's entries and products_processed = 1.
C5_ExhaustedContributesNothing ==
    /\ \A k \in ExhaustedIdx : EntriesOf(resolution[k].id) = <<>>
    /\ (Ended /\ Len(resolution) = 2 /\ 1 \in ResolvedIdx /\ 2 \in ExhaustedIdx) =>
          /\ pc = "done"
          /\ results.products_processed = 1
          /\ EntriesOf(brief[1]) = Entries

\* C6: at return, every resolved product whose resize succeeds for every
\* ratio has exactly one entry per ratio, in ratio order, carrying its id,
\* name, method and input asset; one product with a fully usable existing
\* asset gives products_processed = 1 and assets_generated = 3.
C6_OneEntryPerRatio ==
    pc = "done" =>
        /\ \A k \in ResolvedIdx :
              ResizesAll(resolution[k].path) =>
                  EntriesOf(resolution[k].id) =
                      [j \in 1..Len(RatioOrder) |->
                          [product |-> resolution[k].id,
                           product_name |-> Product(resolution[k].id).name,
                           method |-> resolution[k].method,
                           input_asset |-> resolution[k].path,
                           output |-> OutputPath(resolution[k].id, RatioOrder[j])]]
        /\ (\A k \in ResolvedIdx : ResizesAll(resolution[k].path)) =>
              results.assets_generated = Len(RatioOrder) * Cardinality(ResolvedIdx)
        /\ (Len(brief) = 1 /\ HasAssetFile(startFs, brief[1])
              /\ ResizesAll(get_existing_asset_path(startFs, brief[1]))) =>
              /\ results.products_processed = 1
              /\ results.assets_generated = 3
              /\ results.generation_methods[1].method = "existing_asset"

C6_Witness ==
    /\ pc = "done"
    /\ Len(brief) = 2
    /\ results.assets_generated = 6
    /\ results.generation_methods[1].method = "genai_generated"
    /\ results.generation_methods[4].method = "existing_asset"

\* C7: products_processed goes up only by one, only when all ratios of a
\* resolved product have been attempted, whatever number of them produced a
\* creative; at return it equals the number of resolved products.
C7_ProcessedCountsResolved ==
    /\ [](pc = "done" =>
            results.products_processed = Cardinality(ResolvedIdx))
    /\ []((Loaded /\ pc # "done") =>
            results.products_processed = Cardinality(ResolvedIdx \ {idx}))
    /\ [][(Loaded /\ results' # NoResults
             /\ results'.products_processed # results.products_processed) =>
            \/ pc \in {"done", "raised"} /\ results'.products_processed = 0
            \/ /\ pc = "ratio"
               /\ ratioIdx > Len(RatioOrder)
               /\ idx \in ResolvedIdx
               /\ results'.products_processed = results.products_processed + 1]_vars

C7_Witness ==
    /\ pc = "done"
    /\ results.products_processed = 2
    /\ results.assets_generated = 1

C9_RenderDegradedAbsorbed ==
    [][(pc = "ratio" /\ ratioIdx <= Len(RatioOrder) /\ ~drawable
          /\ resize_image_for_aspect_ratio(fs, asset_path, RatioOrder[ratioIdx]) # NoImage) =>
         LET ratio == RatioOrder[ratioIdx]
             resized == resize_image_for_aspect_ratio(fs, asset_path, ratio)
             out == OutputPath(brief[idx], ratio)
         IN \/ /\ pc' = "raised"
               /\ lastStep'.kind = "write_raised"
               /\ ~lastStep'.writeOk
               /\ results' = results
            \/ /\ pc' = "ratio"
               /\ ratioIdx' = ratioIdx + 1
               /\ out \in DOMAIN outputFs'
               /\ outputFs'[out] = resized
               /\ ~outputFs'[out].labeled
               /\ results'.assets_generated = results.assets_generated + 1
               /\ Len(results'.generation_methods) = Len(results.generation_methods) + 1
               /\ results'.generation_methods[Len(results'.generation_methods)].product = brief[idx]
               /\ results'.generation_methods[Len(results'.generation_methods)].output = out]_vars

C9_Witness ==
    /\ ~drawable
    /\ lastStep.kind = "written"
    /\ ~outputFs[lastStep.path].labeled
    /\ results.assets_generated = 3

\* C10: a brief that is missing or does not parse makes generate_creatives
\* raise before any lookup, generation request or output write, and no
\* report exists.
C10_BriefLoadErrorFatal ==
    ~briefValid =>
        /\ pc \in {"idle", "raised"}
        /\ pc = "raised" => raiseKind = "BriefLoadError"
        /\ results = NoResults
        /\ lookups = <<>>
        /\ genLog = <<>>
        /\ written = {}
        /\ outputFs = <<>>
        /\ fs = startFs

C10_Witness ==
    /\ pc = "raised"
    /\ raiseKind = "BriefLoadError"
    /\ run = 2

\* C11: get_existing_asset_path returns the first existing candidate in the
\* order .jpg, .jpeg, .png, .webp, no path when none of the four exists, and
\* leaves the filesystem as it was.
C11_FirstExistingInOrder ==
    /\ [](pc = "located" =>
            LET exts == <<".jpg", ".jpeg", ".png", ".webp">>
                cand(k) == <<"input_assets", brief[idx], exts[k]>>
            IN IF \E k \in 1..4 : cand(k) \in DOMAIN fs
               THEN \E k \in 1..4 :
                        /\ asset_path = cand(k)
                        /\ cand(k) \in DOMAIN fs
                        /\ \A j \in 1..(k - 1) : cand(j) \notin DOMAIN fs
               ELSE asset_path = NoPath)
    /\ [][fs' = fs /\ outputFs' = outputFs]_vars

C11_Witness ==
    /\ pc = "located"
    /\ asset_path = <<"input_assets", brief[idx], ".jpeg">>
    /\ <<"input_assets", brief[idx], ".jpg">> \notin DOMAIN fs
    /\ <<"input_assets", brief[idx], ".png">> \in DOMAIN fs
    /\ <<"input_assets", brief[idx], ".webp">> \in DOMAIN fs

\* C12: every creative written for a ratio label has exactly the configured
\* width and height of that label, labeled or not.
C12_CreativeDimensions ==
    /\ \A path \in DOMAIN outputFs :
          /\ outputFs[path].size = ASPECT_RATIOS[path[3]]
          /\ outputFs[path].size =
                CASE path[3] = "1_1" -> <<1024, 1024>>
                  [] path[3] = "9_16" -> <<720, 1280>>
                  [] path[3] = "16_9" -> <<1280, 720>>
    /\ lastStep.kind = "written" =>
          /\ outputFs[lastStep.path].size = ASPECT_RATIOS[lastStep.ratio]
          /\ outputFs[lastStep.path].labeled = drawable

C12_Witness ==
    /\ ~drawable
    /\ \E i \in ProductIds :
          /\ <<"output", i, "9_16", "creative", "9_16", ".jpg">> \in DOMAIN outputFs
          /\ <<"output", i, "16_9", "creative", "16_9", ".jpg">> \in DOMAIN outputFs
          /\ outputFs[<<"output", i, "9_16", "creative", "9_16", ".jpg">>] =
                [size |-> <<720, 1280>>, labeled |-> FALSE]

\* C13: every entry's output is output/<product id>/<ratio>/creative_<ratio>.jpg,
\* it is the path that was written, and the paths of one run are pairwise
\* distinct, so no creative of a run overwrites another.
C13_OutputLayout ==
    Loaded =>
        /\ \A k \in 1..Len(Entries) :
              /\ \E r \in {"1_1", "9_16", "16_9"} :
                    Entries[k].output =
                        <<"output", Entries[k].product, r, "creative", r, ".jpg">>
              /\ Entries[k].output \in DOMAIN outputFs
              /\ Entries[k].output \in written
        /\ \A j, k \in 1..Len(Entries) :
              j # k => Entries[j].output # Entries[k].output
        /\ Cardinality(written) = Len(Entries)

C13_Witness ==
    /\ pc = "done"
    /\ Len(Entries) = 6
    /\ Entries[1].product # Entries[6].product

\* C14: pauses happen only between provider attempts: when generation is
\* over there is one pause fewer than provider attempts, and the last event
\* is not a pause.
C14_PauseOnlyBetweenAttempts ==
    ((pc = "resolved" \/ (pc = "raised" /\ raiseKind = "ResolutionExhausted"))
        /\ genLog # <<>>) =>
        /\ genLog[Len(genLog)][1] # "sleep"
        /\ Len(SelectSeq(genLog, LAMBDA e : e[1] = "sleep")) =
              Len(SelectSeq(genLog, LAMBDA e : e[1] = "service")) - 1

\* C15: generate_with_huggingface never raises; a failed model attempt only
\* moves to the next model, and all models failing returns no path; a file
\* is written only on a 200 response, at input_assets/<id>.jpg, which is the
\* path returned on success.
C15_HuggingfaceNeverRaises ==
    /\ [][pc = "hf" =>
            /\ pc' \in {"hf", "resolved", "service"}
            /\ raiseKind' = raiseKind]_vars
    /\ [][fs' # fs =>
            /\ pc = "hf"
            /\ genLog'[Len(genLog')][1] = "model"
            /\ genLog'[Len(genLog')][3] = "200"
            /\ DOMAIN fs' = DOMAIN fs \cup {<<"input_assets", brief[idx], ".jpg">>}
            /\ \A q \in DOMAIN fs \ {<<"input_assets", brief[idx], ".jpg">>} :
                  fs'[q] = fs[q]]_vars
    /\ [][(pc = "hf" /\ pc' = "resolved") =>
            /\ asset_path' = <<"input_assets", brief[idx], ".jpg">>
            /\ asset_path' \in DOMAIN fs'
            /\ genLog'[Len(genLog')][3] = "200"]_vars
    /\ [][(pc = "hf" /\ pc' = "hf") =>
            /\ modelIdx' = modelIdx + 1
            /\ asset_path' = NoPath]_vars
    /\ [][(pc = "hf" /\ pc' = "service") =>
            /\ Len(ModelEvents) = Len(HUGGINGFACE_MODELS)
            /\ \A k \in 1..Len(ModelEvents) : ModelEvents[k][4] # "saved"
            /\ asset_path' = NoPath]_vars

C15_Witness ==
    /\ pc = "resolved"
    /\ method = "genai_generated"
    /\ Len(ModelEvents) = 2
    /\ ModelEvents[1][4] = "request_failed"
    /\ asset_path = <<"input_assets", brief[idx], ".jpg">>

\* C16: assets_generated always equals the number of entries; at return it
\* is at most (number of ratios) x products_processed and every entry names
\* a product that was counted.
C16_CountsAgree ==
    /\ Loaded => results.assets_generated = Len(results.generation_methods)
    /\ pc = "done" =>
          /\ results.assets_generated <= Len(RatioOrder) * results.products_processed
          /\ \A k \in 1..Len(Entries) :
                \E j \in ResolvedIdx : resolution[j].id = Entries[k].product
          /\ Cardinality({Entries[k].product : k \in 1..Len(Entries)})
                <= results.products_processed

C16_Witness ==
    /\ pc = "done"
    /\ results.assets_generated = 4
    /\ results.products_processed = 2

\* C17: a product resolved by generation leaves input_assets/<id>.jpg, the
\* pipeline never removes an asset, and a product resolved in an earlier run
\* is resolved as existing_asset, with no generation step, in every later one.
C17_GenerationFeedsLocator ==
    /\ [][(pc = "hf" /\ pc' = "resolved" /\ method' = "genai_generated") =>
            <<"input_assets", brief[idx], ".jpg">> \in DOMAIN fs']_vars
    /\ [][DOMAIN fs \subseteq DOMAIN fs']_vars
    /\ [](\A k \in ResolvedIdx :
            resolution[k].id \in prev.resolved =>
                resolution[k].method = "existing_asset")
    /\ [](pc \in {"service", "hf"} => brief[idx] \notin prev.resolved)

C17_Witness ==
    /\ run = 2
    /\ pc = "done"
    /\ prev.status = "done"
    /\ ~HasAssetFile(prev.startFs, brief[1])
    /\ brief[1] \in prev.resolved
    /\ resolution[1].method = "existing_asset"
    /\ resolution[1].path = <<"input_assets", brief[1], ".jpg">>

====
